---- MODULE Spec2Model ----
(***************************************************************************)
(* Model of assets/js/script.js: the triangle-mesh Render Loop Controller  *)
(* (canvas set-up, particle seeding, wraparound update, nearest-neighbour  *)
(* lists, triangle drawing, resize handling, frame scheduling) and the     *)
(* skill-bar Scroll Reveal Animator (IntersectionObserver callback and     *)
(* its requestAnimationFrame tween).                                       *)
(*                                                                         *)
(* Numbers.  JavaScript numbers are doubles; the model keeps them exact in *)
(* integers by fixing the units:                                           *)
(*   - positions are whole layout pixels;                                  *)
(*   - velocities are in units of 1/VDen px per ms (VDen = 1250), so       *)
(*     BASE_SPEED = 0.02 px/ms is 25;                                      *)
(*   - frame timestamps advance by multiples of VDen ms, which makes       *)
(*     vx * dt a whole number of pixels;                                   *)
(*   - depth is a multiple of 1/3, directions are the twelve angles whose  *)
(*     cosine and sine are multiples of 1/5.                               *)
(***************************************************************************)
EXTENDS Integers, Sequences, FiniteSets, TLC

VARIABLES
    pc,         \* "loading" before DOMContentLoaded, then "started" or "noop"
    dom,        \* the document start() finds (environment)
    win,        \* the window's current layout sizes (environment)
    clock,      \* time of the latest animation frame, ms (environment)
    rng,        \* position in Math.random's stream
    canvas,     \* let canvas: "undefined", "null", "found", "created"
    ctx,        \* let ctx: TRUE when a 2D context was obtained
    width,      \* let width
    height,     \* let height
    points,     \* let points
    rafId,      \* let rafId
    pending,    \* ids of the controller's frame callbacks the browser holds
    nextHandle, \* next handle requestAnimationFrame returns
    lastTime,   \* let lastTime
    neighborRecalcTicker,
    listeners,  \* events onResize is registered for
    log,        \* console output
    drawn,      \* triangles filled and stroked by the latest drawScene
    threw,      \* TRUE once a frame callback ended in an uncaught TypeError
    lastOp,     \* the handler that ran last
    nFrames,    \* frames run so far
    nResizes,   \* resize / orientationchange events so far
    framePeriod \* time between two animation frames, ms (environment)

\* The Scroll Reveal Animator (script.js lines 316-349)
VARIABLES
    rpc,        \* "loading" before DOMContentLoaded, then "observing" or "idle"
    bars,       \* number of .skill-bar elements of the page (environment)
    styleP,     \* the inline --p property of each bar
    observed,   \* the observer's observation targets
    ioPrev,     \* per target, the intersection state the observer saw last
    ioQueue,    \* the observer's queued entries, not yet delivered
    tweens,     \* the tweens started, in order: element, target, start, ...
    now,        \* performance.now(), ms (environment)
    lastTs,     \* timestamp of the latest animation frame (environment)
    frameDue    \* TRUE when time has passed since the latest animation frame

meshVars == <<pc, dom, win, clock, rng, canvas, ctx, width, height, points, rafId,
              pending, nextHandle, lastTime, neighborRecalcTicker, listeners, log,
              drawn, threw, lastOp, nFrames, nResizes, framePeriod>>

revealVars == <<rpc, bars, styleP, observed, ioPrev, ioQueue, tweens, now, lastTs,
               frameDue>>

vars == <<meshVars, revealVars>>

----------------------------------------------------------------------------
\* Tunable parameters (script.js lines 10-17, 200)
MOBILE_BREAKPOINT == 768
PARTICLES_MOBILE == 48
PARTICLES_DESKTOP == 100
\* 0.02 px per ms, in units of 1/VDen px per ms
BASE_SPEED == 25
WRAP_MARGIN == 24
NEIGHBOR_COUNT == 3
LINK_MAX_DIST == 120
\* the literal of `if (area < 150) continue`
MIN_AREA == 150

\* denominator of the velocity unit: BASE_SPEED = 25 / VDen px per ms
VDen == 1250

----------------------------------------------------------------------------
\* Bounds of the model
MaxFrames == 3
MaxResizes == 1

\* Time between two animation frames: a throttled page, and a page in the
\* background that gets a frame every 25 s
FramePeriods == {VDen, 20 * VDen}

\* Layout sizes the window can have: innerWidth, the hero section's
\* clientHeight, the canvas's clientHeight and innerHeight.
Viewports ==
    { [innerWidth |-> 375,  heroHeight |-> 600, canvasHeight |-> 600, innerHeight |-> 667],
      [innerWidth |-> 768,  heroHeight |-> 0,   canvasHeight |-> 0,   innerHeight |-> 0],
      [innerWidth |-> 1920, heroHeight |-> 0,   canvasHeight |-> 900, innerHeight |-> 1080] }
\* (the second layout has every height 0: getTargetSize falls back to 1)

\* Documents start() can find: the element with id bg-canvas ("none", a
\* "canvas", or another element "div" without getContext), the #tsparticles
\* host, the .section--home host, whether getContext("2d") yields a context,
\* and a mounted tsParticles ("absent", "ok", or "throws" on destroy()).
Doms ==
    { [bg |-> "none",   ts |-> TRUE,  home |-> TRUE,  ctx2d |-> TRUE,  tsp |-> "throws"],
      [bg |-> "none",   ts |-> FALSE, home |-> FALSE, ctx2d |-> TRUE,  tsp |-> "ok"],
      [bg |-> "div",    ts |-> FALSE, home |-> FALSE, ctx2d |-> TRUE,  tsp |-> "throws"],
      [bg |-> "canvas", ts |-> FALSE, home |-> TRUE,  ctx2d |-> FALSE, tsp |-> "absent"],
      [bg |-> "none",   ts |-> TRUE,  home |-> FALSE, ctx2d |-> FALSE, tsp |-> "absent"] }

----------------------------------------------------------------------------
\* Math.random(): a counter-based generator.  Mix(k) / RandRes is the k-th
\* number of the stream, in [0, 1).
RandRes == 46337

Mix(k) ==
    LET h == (k * 7919 + 13) % RandRes
    IN  (((h * h) % RandRes) * 12345 + h * 271 + 7) % RandRes

\* Math.random() * n for the k-th draw, when the product is a whole number
RandomTimes(k, n) == (Mix(k) * n) \div RandRes

\* cos and sin of the twelve modelled angles, times 5
Cos5 == <<5, 4, 3, 0, -3, -4, -5, -4, -3, 0, 3, 4>>
Sin5 == <<0, 3, 4, 5, 4, 3, 0, -3, -4, -5, -4, -3>>

\* const lerp = (a, b, t) => a + (b - a) * t, with t = t3 / 3
lerp3(a, b, t3) == a + ((b - a) * t3) \div 3

\* computeParticleCount with `<` for `<=`
computeParticleCountStrict(innerWidth) ==
    IF innerWidth < MOBILE_BREAKPOINT THEN PARTICLES_MOBILE ELSE PARTICLES_DESKTOP

\* computeParticleCount()
computeParticleCount(innerWidth) ==
    IF innerWidth <= MOBILE_BREAKPOINT THEN PARTICLES_MOBILE ELSE PARTICLES_DESKTOP

Max(a, b) == IF a >= b THEN a ELSE b
Min(a, b) == IF a <= b THEN a ELSE b

\* getTargetSize(): hero?.clientHeight || #bg-canvas?.clientHeight || innerHeight
getTargetSize(d, cv, w) ==
    LET hero == IF d.home THEN w.heroHeight ELSE 0
        bgEl == IF d.bg # "none" \/ cv = "created" THEN w.canvasHeight ELSE 0
        h    == IF hero # 0 THEN hero ELSE IF bgEl # 0 THEN bgEl ELSE w.innerHeight
    IN  [w |-> w.innerWidth, h |-> Max(1, h)]

\* getOrCreateCanvas()
getOrCreateCanvas(d) ==
    IF d.bg = "canvas" THEN "found"
    ELSE IF d.ts \/ d.home THEN "created"
    ELSE "null"

\* One particle of initParticles(): the draws are depth, angle, x, y.
\* speedFactor = lerp(1.0, 0.4, depth) is kept times 30.
newParticle(k, w, h) ==
    LET depth3        == RandomTimes(k, 3)
        speedFactor30 == lerp3(30, 12, depth3)
        angle         == RandomTimes(k + 1, 12) + 1
        speed         == (BASE_SPEED * speedFactor30) \div 30
    IN  [ x |-> RandomTimes(k + 2, w),
          y |-> RandomTimes(k + 3, h),
          vx |-> (Cos5[angle] * speed) \div 5,
          vy |-> (Sin5[angle] * speed) \div 5,
          depth3 |-> depth3,
          hasNeighbors |-> FALSE,
          neighbors |-> <<>> ]

\* initParticles(): the new points array (r is the stream position)
initParticles(r, innerWidth, w, h) ==
    [i \in 1..computeParticleCount(innerWidth) |-> newParticle(r + 4 * (i - 1), w, h)]

\* wrap that carries the overshoot over instead of placing on the bound
wrapModular(c, v, dt, size) ==
    LET lo == -WRAP_MARGIN
        hi == size + WRAP_MARGIN
        c1 == c + (v * dt) \div VDen
    IN  IF c1 < lo THEN c1 + (hi - lo) ELSE IF c1 > hi THEN c1 - (hi - lo) ELSE c1

\* One coordinate of updateParticles(dt): advance, then wrap
wrap(c, v, dt, size) ==
    LET lo == -WRAP_MARGIN
        hi == size + WRAP_MARGIN
        c1 == c + (v * dt) \div VDen
    IN  IF c1 < lo THEN hi ELSE IF c1 > hi THEN lo ELSE c1

\* updateParticles(dt)
updateParticles(ps, dt, w, h) ==
    [i \in 1..Len(ps) |->
        [ps[i] EXCEPT !.x = wrap(ps[i].x, ps[i].vx, dt, w),
                      !.y = wrap(ps[i].y, ps[i].vy, dt, h)]]

\* the comparator b.d2 - a.d2: descending
byD2Descending(a, b) == a.d2 > b.d2

\* the comparator of arr.sort((a, b) => a.d2 - b.d2): a goes before b
byD2(a, b) == a.d2 < b.d2

\* arr of computeNeighbors for particle i: every j # i in index order, with
\* the squared distance
distArr(ps, i) ==
    [m \in 1..(Len(ps) - 1) |->
        LET j  == IF m < i THEN m ELSE m + 1
            dx == ps[j].x - ps[i].x
            dy == ps[j].y - ps[i].y
        IN  [j |-> j, d2 |-> dx * dx + dy * dy]]

\* arr.sort(...).slice(0, NEIGHBOR_COUNT); Array.prototype.sort is stable
neighborsOf(ps, i) ==
    LET sorted == SortSeq(distArr(ps, i), byD2)
    IN  SubSeq(sorted, 1, Min(NEIGHBOR_COUNT, Len(sorted)))

\* computeNeighbors()
computeNeighbors(ps) ==
    [i \in 1..Len(ps) |->
        [ps[i] EXCEPT !.hasNeighbors = TRUE, !.neighbors = neighborsOf(ps, i)]]

\* Math.hypot(dx, dy) > limit, for whole dx, dy and limit
hypotExceeds(dx, dy, limit) == dx * dx + dy * dy > limit * limit

\* the triangle test without the d12 comparison
triangleVisibleNoD12(ps, i, j1, j2) ==
    LET p0 == ps[i]
        p1 == ps[j1]
        p2 == ps[j2]
        cross == (p1.x - p0.x) * (p2.y - p0.y) - (p2.x - p0.x) * (p1.y - p0.y)
        area  == IF cross < 0 THEN -cross ELSE cross
    IN  /\ ~hypotExceeds(p1.x - p0.x, p1.y - p0.y, LINK_MAX_DIST)
        /\ ~hypotExceeds(p2.x - p0.x, p2.y - p0.y, LINK_MAX_DIST)
        /\ ~(area < MIN_AREA)

\* The test of one candidate triangle of drawScene: p0 = points[i],
\* p1 = points[j1], p2 = points[j2]
triangleVisible(ps, i, j1, j2) ==
    LET p0 == ps[i]
        p1 == ps[j1]
        p2 == ps[j2]
        cross == (p1.x - p0.x) * (p2.y - p0.y) - (p2.x - p0.x) * (p1.y - p0.y)
        area  == IF cross < 0 THEN -cross ELSE cross
    IN  /\ ~hypotExceeds(p1.x - p0.x, p1.y - p0.y, LINK_MAX_DIST)
        /\ ~hypotExceeds(p2.x - p0.x, p2.y - p0.y, LINK_MAX_DIST)
        /\ ~hypotExceeds(p2.x - p1.x, p2.y - p1.y, LINK_MAX_DIST)
        /\ ~(area < MIN_AREA)

\* const maxTriangles = Math.min(2, neigh.length - 1), 0 when the particle
\* is skipped (`!neigh || neigh.length < 2`)
maxTriangles(p) ==
    IF ~p.hasNeighbors \/ Len(p.neighbors) < 2 THEN 0
    ELSE Min(2, Len(p.neighbors) - 1)

\* The triangles particle i draws, in order
trianglesOf(ps, i) ==
    LET neigh == ps[i].neighbors
        cand  == [t \in 1..maxTriangles(ps[i]) |-> <<i, neigh[1].j, neigh[t + 1].j>>]
    IN  SelectSeq(cand, LAMBDA c : triangleVisible(ps, c[1], c[2], c[3]))

\* drawScene dereferences points[neigh[0].j] and points[neigh[t + 1].j]:
\* reading .x of a missing particle is a TypeError
drawThrows(ps) ==
    \E i \in 1..Len(ps) :
        \E t \in 1..maxTriangles(ps[i]) :
            \/ ps[i].neighbors[1].j \notin 1..Len(ps)
            \/ ps[i].neighbors[t + 1].j \notin 1..Len(ps)

RECURSIVE concat(_, _)
concat(f, n) == IF n = 0 THEN <<>> ELSE concat(f, n - 1) \o f[n]

\* drawScene(): the fill-and-stroke calls of the triangle loop, in order
drawScene(ps) ==
    concat([i \in 1..Len(ps) |-> trianglesOf(ps, i)], Len(ps))

----------------------------------------------------------------------------
\* The controller before DOMContentLoaded, in document d and window w, on a
\* display with frame period p; ps is the points array (`let points = []`)
meshInit(d, w, p, ps) ==
    /\ pc = "loading"
    /\ dom = d
    /\ win = w
    /\ clock = 0
    /\ rng = 0
    /\ canvas = "undefined"
    /\ ctx = FALSE
    /\ width = 0
    /\ height = 0
    /\ points = ps
    /\ rafId = 0
    /\ pending = {}
    /\ nextHandle = 1
    /\ lastTime = 0
    /\ neighborRecalcTicker = 0
    /\ listeners = {}
    /\ log = {}
    /\ drawn = <<>>
    /\ threw = FALSE
    /\ lastOp = "none"
    /\ nFrames = 0
    /\ nResizes = 0
    /\ framePeriod = p

\* console.log of the tsParticles teardown: destroy() failures are caught
teardownLog(d) == IF d.tsp # "absent" THEN {"tsParticles containers destroyed"} ELSE {}

\* a start() that registers onResize and requests the first frame before
\* it looks for the canvas
StartNoCanvasScheduled ==
    /\ pc = "loading"
    /\ getOrCreateCanvas(dom) = "null"
    /\ pc' = "noop"
    /\ canvas' = "null"
    /\ log' = log \cup teardownLog(dom) \cup {"warn: bg-canvas not found and no host to create it."}
    /\ listeners' = {"resize", "orientationchange"}
    /\ pending' = pending \cup {nextHandle}
    /\ rafId' = nextHandle
    /\ nextHandle' = nextHandle + 1
    /\ lastOp' = "start"
    /\ UNCHANGED <<dom, win, clock, rng, ctx, width, height, points, lastTime,
                   neighborRecalcTicker, drawn, threw, nFrames, nResizes, framePeriod,
                   revealVars>>

\* start(), no canvas and no host to create one
StartNoCanvas ==
    /\ pc = "loading"
    /\ getOrCreateCanvas(dom) = "null"
    /\ pc' = "noop"
    /\ canvas' = "null"
    /\ log' = log \cup teardownLog(dom) \cup {"warn: bg-canvas not found and no host to create it."}
    /\ lastOp' = "start"
    /\ UNCHANGED <<dom, win, clock, rng, ctx, width, height, points, rafId, pending,
                   nextHandle, lastTime, neighborRecalcTicker, listeners, drawn,
                   threw, nFrames, nResizes, framePeriod, revealVars>>

\* start(), canvas without a 2D context
StartNoContext ==
    /\ pc = "loading"
    /\ getOrCreateCanvas(dom) # "null"
    /\ ~dom.ctx2d
    /\ pc' = "noop"
    /\ canvas' = getOrCreateCanvas(dom)
    /\ log' = log \cup teardownLog(dom) \cup {"warn: 2D context not available"}
    /\ lastOp' = "start"
    /\ UNCHANGED <<dom, win, clock, rng, ctx, width, height, points, rafId, pending,
                   nextHandle, lastTime, neighborRecalcTicker, listeners, drawn,
                   threw, nFrames, nResizes, framePeriod, revealVars>>

\* resizeCanvas(); initParticles(); computeNeighbors()
reseed(d, cv, w, r) ==
    LET size == getTargetSize(d, cv, w)
    IN  [ width  |-> size.w,
          height |-> size.h,
          points |-> computeNeighbors(initParticles(r, w.innerWidth, size.w, size.h)),
          rng    |-> r + 4 * computeParticleCount(w.innerWidth) ]

\* start(), canvas and context obtained
StartOk ==
    /\ pc = "loading"
    /\ getOrCreateCanvas(dom) # "null"
    /\ dom.ctx2d
    /\ LET cv == getOrCreateCanvas(dom)
           s  == reseed(dom, cv, win, rng)
       IN  /\ canvas' = cv
           /\ width' = s.width
           /\ height' = s.height
           /\ points' = s.points
           /\ rng' = s.rng
    /\ pc' = "started"
    /\ ctx' = TRUE
    /\ log' = log \cup teardownLog(dom)
    /\ listeners' = {"resize", "orientationchange"}
    /\ lastTime' = 0
    /\ pending' = (IF rafId # 0 THEN pending \ {rafId} ELSE pending) \cup {nextHandle}
    /\ rafId' = nextHandle
    /\ nextHandle' = nextHandle + 1
    /\ lastOp' = "start"
    /\ UNCHANGED <<dom, win, clock, neighborRecalcTicker, drawn, threw, nFrames, nResizes,
                   framePeriod, revealVars>>

\* an onResize that cancels the pending frame and requests a new one
onResizeRestart(id, pend, nxt) ==
    [rafId |-> nxt, pending |-> (pend \ {id}) \cup {nxt}, nextHandle |-> nxt + 1]

\* What onResize does to the frame schedule: nothing
onResizeSchedule(id, pend, nxt) == [rafId |-> id, pending |-> pend, nextHandle |-> nxt]

\* an onResize without its computeNeighbors() call
onResizeNoNeighbors(d, cv, w, r) ==
    LET size == getTargetSize(d, cv, w)
    IN  [ width  |-> size.w,
          height |-> size.h,
          points |-> initParticles(r, w.innerWidth, size.w, size.h),
          rng    |-> r + 4 * computeParticleCount(w.innerWidth) ]

\* What onResize does to the particles
onResizePoints(d, cv, w, r) == reseed(d, cv, w, r)

\* The window is resized or rotated to layout v; onResize runs when it is
\* registered.
Resize(v) ==
    /\ nResizes < MaxResizes
    /\ pc # "loading"
    /\ win' = v
    /\ nResizes' = nResizes + 1
    /\ lastOp' = "resize"
    /\ IF listeners # {}
       THEN LET s   == onResizePoints(dom, canvas, v, rng)
                sch == onResizeSchedule(rafId, pending, nextHandle)
            IN  /\ width' = s.width
                /\ height' = s.height
                /\ points' = s.points
                /\ rng' = s.rng
                /\ rafId' = sch.rafId
                /\ pending' = sch.pending
                /\ nextHandle' = sch.nextHandle
                /\ drawn' = <<>>
       ELSE UNCHANGED <<width, height, points, rng, rafId, pending, nextHandle, drawn>>
    /\ UNCHANGED <<pc, dom, clock, canvas, ctx, lastTime, neighborRecalcTicker,
                   listeners, log, threw, nFrames, framePeriod, revealVars>>

\* The end of frame(ts): rafId = requestAnimationFrame(frame)
frameSchedule(pend, nxt) == [rafId |-> nxt, pending |-> pend \cup {nxt}, nextHandle |-> nxt + 1]

\* The browser runs the pending callback `id` with the next frame's
\* timestamp: frame(ts)
Frame(id) ==
    /\ nFrames < MaxFrames
    /\ id \in pending
    /\ LET ts  == clock + framePeriod
           lt  == IF lastTime = 0 THEN ts ELSE lastTime
           dt  == ts - lt
           tk  == (neighborRecalcTicker + 1) % 2
           ps1 == updateParticles(points, dt, width, height)
           ps2 == IF tk = 0 THEN computeNeighbors(ps1) ELSE ps1
       IN  /\ clock' = ts
           /\ lastTime' = ts
           /\ neighborRecalcTicker' = tk
           /\ points' = ps2
           /\ IF drawThrows(ps2)
              THEN /\ threw' = TRUE
                   /\ pending' = pending \ {id}
                   /\ UNCHANGED <<drawn, rafId, nextHandle>>
              ELSE LET sch == frameSchedule(pending \ {id}, nextHandle)
                   IN  /\ drawn' = drawScene(ps2)
                       /\ rafId' = sch.rafId
                       /\ pending' = sch.pending
                       /\ nextHandle' = sch.nextHandle
                       /\ UNCHANGED threw
    /\ nFrames' = nFrames + 1
    /\ lastOp' = "frame"
    /\ UNCHANGED <<pc, dom, win, rng, canvas, ctx, width, height, listeners, log, nResizes,
                   framePeriod, revealVars>>

----------------------------------------------------------------------------
\* The Scroll Reveal Animator

\* const duration = 700
DURATION == 700

\* Progress values (the --p property, target * eased) are kept times
\* DURATION * DURATION, which makes every value a tick writes whole.
PDen == DURATION * DURATION

\* Time advances in steps of a quarter of the duration.
TimeStep == 175
MaxNow == 6
\* How far the timestamp of an animation frame can lie before the time its
\* callbacks run (the frame's time is taken when the frame is issued), in
\* time steps.
MaxLag == 4
NumBars == 1
MaxQueue == 2

\* What the page's markup gives --p on a bar: nothing, or a number
InitialStyles ==
    { [kind |-> "unset", num |-> 0],
      [kind |-> "num", num |-> 80 * PDen],
      [kind |-> "num", num |-> 45 * PDen] }

\* parseFloat(el.style.getPropertyValue("--p")) || 0, as a whole number:
\* the values read are the markup's and the "0" the callback has just set
readTarget(style) ==
    IF style.kind = "num" THEN style.num \div PDen ELSE 0

\* eased of tick, times PDen, for e = ts - start:
\*   t = Math.min(1, e / duration)
\*   eased = t < 0.5 ? 2 * t * t : -1 + (4 - 2 * t) * t
eased(e) ==
    LET tn == Min(DURATION, e)
    IN  IF 2 * tn < DURATION
        THEN 2 * tn * tn
        ELSE (4 * DURATION - 2 * tn) * tn - PDen

\* t < 1 of tick: the tween requests another frame
ticksAgain(e) == Min(DURATION, e) < DURATION

\* The intersection state of a target that is out of the viewport, less than
\* 20 % visible, or at least 20 % visible (threshold: 0.2)
Intersections == {"out", "partial", "visible"}
ioState(cls) ==
    [ isIntersecting |-> cls # "out",
      thresholdIndex |-> IF cls = "visible" THEN 1 ELSE 0 ]

\* The observer callback on one entry; s holds styleP, tweens and observed
onEntry(s, entry, t) ==
    IF entry.isIntersecting
    THEN LET el == entry.target
         IN  [ styleP   |-> [s.styleP EXCEPT ![el] = [kind |-> "num", num |-> 0]],
               tweens   |-> Append(s.tweens,
                                [ el |-> el,
                                  target |-> readTarget(s.styleP[el]),
                                  start |-> t,
                                  active |-> TRUE,
                                  writes |-> <<>> ]),
               observed |-> s.observed \ {el} ]
    ELSE s

\* entries.forEach(...)
RECURSIVE onEntries(_, _, _)
onEntries(s, entries, t) ==
    IF entries = <<>> THEN s
    ELSE onEntries(onEntry(s, Head(entries), t), Tail(entries), t)

\* tick(ts) of tween k; s holds styleP and tweens
tick(s, k, ts) ==
    LET tw == s.tweens[k]
        e  == ts - tw.start
        v  == tw.target * eased(e)
    IN  IF ~tw.active THEN s
        ELSE [ styleP |-> [s.styleP EXCEPT ![tw.el] = [kind |-> "num", num |-> v]],
               tweens |-> [s.tweens EXCEPT ![k] =
                              [tw EXCEPT !.writes = Append(tw.writes, v),
                                         !.active = ticksAgain(e)]] ]

\* The animation frame callbacks of one frame, in the order requested
RECURSIVE ticks(_, _, _)
ticks(s, k, ts) ==
    IF k > Len(s.tweens) THEN s
    ELSE ticks(tick(s, k, ts), k + 1, ts)

\* The animator before DOMContentLoaded, on a page with n bars styled st
revealInit(n, st) ==
    /\ rpc = "loading"
    /\ bars = n
    /\ styleP = st
    /\ observed = {}
    /\ ioPrev = [el \in 1..n |-> [isIntersecting |-> FALSE, thresholdIndex |-> -1]]
    /\ ioQueue = <<>>
    /\ tweens = <<>>
    /\ now = 0
    /\ lastTs = 0
    /\ frameDue = FALSE

\* DOMContentLoaded: `if (!bars.length) return`, else observe every bar
RevealLoad ==
    /\ rpc = "loading"
    /\ rpc' = IF bars = 0 THEN "idle" ELSE "observing"
    /\ observed' = 1..bars
    /\ UNCHANGED <<bars, styleP, ioPrev, ioQueue, tweens, now, lastTs, frameDue, meshVars>>

\* The browser's update of the intersection observations finds target el in
\* state cls and queues an entry when that differs from what it saw last.
IOUpdate(el, cls) ==
    /\ rpc = "observing"
    /\ el \in observed
    /\ Len(ioQueue) < MaxQueue
    /\ ioState(cls) # ioPrev[el]
    /\ ioPrev' = [ioPrev EXCEPT ![el] = ioState(cls)]
    /\ ioQueue' = Append(ioQueue, [target |-> el, isIntersecting |-> ioState(cls).isIntersecting])
    /\ UNCHANGED <<rpc, bars, styleP, observed, tweens, now, lastTs, frameDue, meshVars>>

\* The browser delivers the queued entries: the observer callback
IONotify ==
    /\ ioQueue # <<>>
    /\ LET s == onEntries([styleP |-> styleP, tweens |-> tweens, observed |-> observed],
                          ioQueue, now)
       IN  /\ styleP' = s.styleP
           /\ tweens' = s.tweens
           /\ observed' = s.observed
    /\ ioQueue' = <<>>
    /\ UNCHANGED <<rpc, bars, ioPrev, now, lastTs, frameDue, meshVars>>

\* An animation frame with timestamp now - lag * TimeStep runs the tweens'
\* pending tick callbacks; frame timestamps never decrease.
RevealFrame(lag) ==
    /\ frameDue
    /\ \E k \in 1..Len(tweens) : tweens[k].active
    /\ now - lag * TimeStep >= lastTs
    /\ LET ts == now - lag * TimeStep
           s  == ticks([styleP |-> styleP, tweens |-> tweens], 1, ts)
       IN  /\ styleP' = s.styleP
           /\ tweens' = s.tweens
           /\ lastTs' = ts
    /\ frameDue' = FALSE
    /\ UNCHANGED <<rpc, bars, observed, ioPrev, ioQueue, now, meshVars>>

\* Time passes
Advance ==
    /\ now < MaxNow * TimeStep
    /\ now' = now + TimeStep
    /\ frameDue' = TRUE
    /\ UNCHANGED <<rpc, bars, styleP, observed, ioPrev, ioQueue, tweens, lastTs, meshVars>>

----------------------------------------------------------------------------
\* The Render Loop Controller, on a page without skill bars
Init ==
    /\ \E d \in Doms, w \in Viewports, p \in FramePeriods : meshInit(d, w, p, <<>>)
    /\ revealInit(0, <<>>)

Next ==
    \/ StartNoCanvas
    \/ StartNoContext
    \/ StartOk
    \/ \E v \in Viewports : Resize(v)
    \/ \E id \in pending : Frame(id)

Spec == Init /\ [][Next]_vars

\* The Scroll Reveal Animator, the controller left before DOMContentLoaded
InitReveal ==
    /\ meshInit(CHOOSE d \in Doms : d.ts /\ d.ctx2d,
                CHOOSE w \in Viewports : w.innerWidth > MOBILE_BREAKPOINT,
                VDen, <<>>)
    /\ \E n \in 0..NumBars : \E st \in [1..n -> InitialStyles] : revealInit(n, st)

NextReveal ==
    \/ RevealLoad
    \/ \E el \in 1..bars, cls \in Intersections : IOUpdate(el, cls)
    \/ IONotify
    \/ \E lag \in 0..MaxLag : RevealFrame(lag)
    \/ Advance

SpecReveal == InitReveal /\ [][NextReveal]_vars

----------------------------------------------------------------------------
\* computeNeighbors on its own: every array of up to UnitMaxN particles at
\* the positions UnitXs x UnitYs
UnitMaxN == 5
UnitXs == {0, 1, 3}
UnitYs == {0, 2}

unitParticle(x, y) ==
    [ x |-> x, y |-> y, vx |-> 0, vy |-> 0, depth3 |-> 0,
      hasNeighbors |-> FALSE, neighbors |-> <<>> ]

InitUnit ==
    /\ \E n \in 0..UnitMaxN :
         \E xs \in [1..n -> UnitXs], ys \in [1..n -> UnitYs] :
            meshInit(CHOOSE d \in Doms : d.ts /\ d.ctx2d,
                     CHOOSE w \in Viewports : w.innerWidth > MOBILE_BREAKPOINT,
                     VDen,
                     [i \in 1..n |-> unitParticle(xs[i], ys[i])])
    /\ revealInit(0, <<>>)

UnitComputeNeighbors ==
    /\ lastOp = "none"
    /\ points' = computeNeighbors(points)
    /\ lastOp' = "computeNeighbors"
    /\ UNCHANGED <<pc, dom, win, clock, rng, canvas, ctx, width, height, rafId, pending,
                   nextHandle, lastTime, neighborRecalcTicker, listeners, log, drawn,
                   threw, nFrames, nResizes, framePeriod, revealVars>>

SpecUnit == InitUnit /\ [][UnitComputeNeighbors]_vars

----------------------------------------------------------------------------
\* Properties

sqDist(p, q) == (q.x - p.x) * (q.x - p.x) + (q.y - p.y) * (q.y - p.y)

absCross(p0, p1, p2) ==
    LET c == (p1.x - p0.x) * (p2.y - p0.y) - (p2.x - p0.x) * (p1.y - p0.y)
    IN  IF c < 0 THEN -c ELSE c

inWrapRange(p, w, h) ==
    /\ -WRAP_MARGIN <= p.x /\ p.x <= w + WRAP_MARGIN
    /\ -WRAP_MARGIN <= p.y /\ p.y <= h + WRAP_MARGIN

\* where a coordinate c moving at v for dt must end up, by the claim
wrapped(c, v, dt, size) ==
    LET raw == c + (v * dt) \div VDen
    IN  IF raw < -WRAP_MARGIN THEN size + WRAP_MARGIN
        ELSE IF raw > size + WRAP_MARGIN THEN -WRAP_MARGIN
        ELSE raw

\* C1: in every state reached by frames and resizes every particle lies in
\* [-WRAP_MARGIN, width + WRAP_MARGIN] x [-WRAP_MARGIN, height + WRAP_MARGIN]
\* for the current width and height, and a frame places a particle that
\* leaves the range on one side on the opposite bound.
C1_Wraparound ==
    [][ /\ \A i \in 1..Len(points') : inWrapRange(points'[i], width', height')
        /\ nFrames' = nFrames + 1 =>
             LET dt == IF lastTime = 0 THEN 0 ELSE clock' - lastTime
             IN  \A i \in 1..Len(points) :
                    /\ points'[i].x = wrapped(points[i].x, points[i].vx, dt, width)
                    /\ points'[i].y = wrapped(points[i].y, points[i].vy, dt, height) ]_vars

\* a frame after a resize from 100 to 48 particles has put one particle on
\* the left bound and one on the right bound
C1_Witness ==
    /\ lastOp = "frame"
    /\ nResizes = 1
    /\ rng = 4 * (PARTICLES_DESKTOP + PARTICLES_MOBILE)
    /\ Len(points) = PARTICLES_MOBILE
    /\ \E i \in 1..Len(points) : points[i].x = -WRAP_MARGIN /\ points[i].vx > 0
    /\ \E i \in 1..Len(points) : points[i].x = width + WRAP_MARGIN /\ points[i].vx < 0

\* C2: after computeNeighbors every neighbor list has length
\* min(NEIGHBOR_COUNT, n - 1), at most 3, holds no j = i and no index twice,
\* and no particle outside the list is strictly closer than one in it.
C2_NearestNeighbors ==
    lastOp = "computeNeighbors" =>
        \A i \in 1..Len(points) :
            LET nb == points[i].neighbors
                in == {nb[k].j : k \in 1..Len(nb)}
            IN  /\ points[i].hasNeighbors
                /\ Len(nb) = Min(NEIGHBOR_COUNT, Len(points) - 1)
                /\ Len(nb) <= 3
                /\ i \notin in
                /\ in \subseteq 1..Len(points)
                /\ Cardinality(in) = Len(nb)
                /\ \A j \in (1..Len(points)) \ (in \cup {i}) :
                      \A k \in in : sqDist(points[i], points[j]) >= sqDist(points[i], points[k])

\* five particles, the neighbors computed, one particle left out of a list
\* although it is as close as one in it
C2_Witness ==
    /\ lastOp = "computeNeighbors"
    /\ Len(points) = 5
    /\ \E i \in 1..5 : \E j \in 1..5 :
          /\ j # i
          /\ \A k \in 1..Len(points[i].neighbors) : points[i].neighbors[k].j # j
          /\ sqDist(points[i], points[j]) = sqDist(points[i], points[points[i].neighbors[3].j])

\* the candidate triangles of particle i: p1 is its first neighbor, p2 its
\* second or third
candidates(i) ==
    LET nb == points[i].neighbors
    IN  IF Len(nb) < 2 THEN {} ELSE {<<i, nb[1].j, nb[k].j>> : k \in 2..Len(nb)}

\* C3: a frame fills and strokes a triangle only if its three pairwise
\* distances, from the current positions, are at most LINK_MAX_DIST and its
\* area value is at least 150; every particle yields at most 2 triangles,
\* each with its first neighbor as p1.
C3_TrianglesGuarded ==
    (lastOp = "frame" /\ ~threw) =>
        /\ \A n \in 1..Len(drawn) :
              LET p0 == points[drawn[n][1]]
                  p1 == points[drawn[n][2]]
                  p2 == points[drawn[n][3]]
              IN  /\ drawn[n] \in candidates(drawn[n][1])
                  /\ sqDist(p0, p1) <= LINK_MAX_DIST * LINK_MAX_DIST
                  /\ sqDist(p0, p2) <= LINK_MAX_DIST * LINK_MAX_DIST
                  /\ sqDist(p1, p2) <= LINK_MAX_DIST * LINK_MAX_DIST
                  /\ absCross(p0, p1, p2) >= 150
        /\ \A i \in 1..Len(points) :
              Cardinality({n \in 1..Len(drawn) : drawn[n][1] = i}) <= 2

\* a frame that moved the particles without recomputing the neighbors drew a
\* triangle, skipped one for a distance and skipped one for its area alone
C3_Witness ==
    /\ lastOp = "frame"
    /\ neighborRecalcTicker = 1
    /\ nFrames = 3
    /\ Len(drawn) > 0
    /\ \E i \in 1..Len(points) : \E c \in candidates(i) :
          sqDist(points[c[2]], points[c[3]]) > LINK_MAX_DIST * LINK_MAX_DIST
    /\ \E i \in 1..Len(points) : \E c \in candidates(i) :
          /\ sqDist(points[c[1]], points[c[2]]) <= LINK_MAX_DIST * LINK_MAX_DIST
          /\ sqDist(points[c[1]], points[c[3]]) <= LINK_MAX_DIST * LINK_MAX_DIST
          /\ sqDist(points[c[2]], points[c[3]]) <= LINK_MAX_DIST * LINK_MAX_DIST
          /\ absCross(points[c[1]], points[c[2]], points[c[3]]) < 150
          /\ \A n \in 1..Len(drawn) : drawn[n] # c

\* C4: once started, the collection holds 48 particles when innerWidth is
\* at most 768 and 100 otherwise, after the seeding, after every resize and
\* after every frame.
C4_CountMatchesViewport ==
    pc = "started" =>
        /\ Len(points) = IF win.innerWidth <= 768 THEN 48 ELSE 100
        /\ win.innerWidth = 375 => Len(points) = 48
        /\ win.innerWidth = 1920 => Len(points) = 100

\* a resize to width 1920 has reseeded 100 particles where 48 were, after a
\* frame
C4_Witness ==
    /\ pc = "started"
    /\ lastOp = "resize"
    /\ nFrames >= 1
    /\ win.innerWidth = 1920
    /\ rng = 4 * (PARTICLES_MOBILE + PARTICLES_DESKTOP)
    /\ Len(points) = 100

\* C7: when start() finds no #bg-canvas, no #tsparticles and no
\* .section--home, or gets no 2D context, it warns and leaves no particles,
\* no listener and no frame callback, and no frame ever runs; a destroy()
\* that throws does not keep the controller from starting.
C7_StartFailsQuietly ==
    /\ ( /\ pc # "loading"
         /\ \/ dom.bg = "none" /\ ~dom.ts /\ ~dom.home
            \/ ~dom.ctx2d )
       => /\ pc = "noop"
          /\ \E m \in log : m \in {"warn: bg-canvas not found and no host to create it.",
                                   "warn: 2D context not available"}
          /\ points = <<>>
          /\ listeners = {}
          /\ pending = {}
          /\ rafId = 0
          /\ nFrames = 0
    /\ ( /\ pc # "loading"
         /\ dom.tsp = "throws"
         /\ dom.ctx2d
         /\ dom.bg = "canvas" \/ dom.ts \/ dom.home )
       => /\ pc = "started"
          /\ listeners = {"resize", "orientationchange"}
          /\ Len(points) > 0

\* start() found no canvas and no host, and a later resize changed nothing
C7_Witness ==
    /\ pc = "noop"
    /\ dom.bg = "none" /\ ~dom.ts /\ ~dom.home
    /\ nResizes = 1
    /\ points = <<>>

C10_NeighborsInRange ==
    pc = "started" =>
        /\ ~threw
        /\ \A i \in 1..Len(points) :
              /\ points[i].hasNeighbors
              /\ \A k \in 1..Len(points[i].neighbors) :
                    points[i].neighbors[k].j \in 1..Len(points)

\* the first frame after a resize from 100 to 48 particles, which does not
\* recompute the neighbors, has drawn triangles
C10_Witness ==
    /\ lastOp = "frame"
    /\ nFrames = 1
    /\ nResizes = 1
    /\ neighborRecalcTicker = 1
    /\ rng = 4 * (PARTICLES_DESKTOP + PARTICLES_MOBILE)
    /\ Len(points) = PARTICLES_MOBILE
    /\ Len(drawn) > 0

\* C5 as stated: no bar ever has more than one tween started for it.
C5_AnimatedOnce ==
    \A el \in 1..bars : Cardinality({k \in 1..Len(tweens) : tweens[k].el = el}) <= 1

\* C6 as stated: the bar shows 0 when its tween starts, the values its
\* ticks write never decrease, and the tick that ends it writes the target.
C6_TweenMonotone ==
    \A k \in 1..Len(tweens) :
        LET tw == tweens[k]
        IN  /\ (Len(tweens) = 1 /\ tw.writes = <<>>) => styleP[tw.el].num = 0
            /\ \A n \in 1..(Len(tw.writes) - 1) : tw.writes[n] <= tw.writes[n + 1]
            /\ (~tw.active) => tw.writes[Len(tw.writes)] = tw.target * PDen

\* C9 as stated: every value a tick writes lies between 0 and the target.
C9_ValueWithinTarget ==
    \A k \in 1..Len(tweens) :
        \A n \in 1..Len(tweens[k].writes) :
            /\ 0 <= tweens[k].writes[n]
            /\ tweens[k].writes[n] <= tweens[k].target * PDen

====
